---- MODULE Spec2Model ----
(***************************************************************************)
(* A model of BoursoBankScrap.py: one run of main(), the login handshake   *)
(* against the bank portal (cookie, token, virtual keypad, password POST)  *)
(* followed by the account discovery and the CSV export.                   *)
(*                                                                         *)
(* Python strings that the code inspects character by character (the PIN,  *)
(* the client number, keypad labels, the encoded password, response        *)
(* bodies) are sequences of one-character strings.  Opaque strings (token, *)
(* cookie, challenge, account identifier) are TLA+ strings, with None for  *)
(* Python's None.                                                          *)
(***************************************************************************)
EXTENDS Integers, Sequences, FiniteSets, TLC

\* ------------------------------------------------------------------ bounds
\* Keypad fragments are drawn with one defect placed at a position 1..MaxDefectPos.
MaxDefectPos == 2
\* The encoder is exercised alone on PINs of length 0..MaxPinLen.
MaxPinLen == 3

\* ------------------------------------------------------------- Python values
None == "None"
\* An element that is not in the page (soup.find / select_one returned None).
NoElem == "NoElem"

DigitChars == {"0", "1", "2", "3", "4", "5", "6", "7", "8", "9"}

\* int(ch) for a one-character decimal string.
DigitValue(ch) ==
    CASE ch = "0" -> 0 [] ch = "1" -> 1 [] ch = "2" -> 2 [] ch = "3" -> 3
      [] ch = "4" -> 4 [] ch = "5" -> 5 [] ch = "6" -> 6 [] ch = "7" -> 7
      [] ch = "8" -> 8 [] ch = "9" -> 9

\* str.isdigit(): at least one character and every character a digit.
IsDigit(s) == Len(s) > 0 /\ \A i \in 1..Len(s) : s[i] \in DigitChars

Whitespace == {" ", "\n", "\t"}

\* str.strip() as far as startswith() can see it: leading whitespace removed.
RECURSIVE LStrip(_)
LStrip(s) ==
    IF s # <<>> /\ Head(s) \in Whitespace THEN LStrip(Tail(s)) ELSE s

StartsWith(s, ch) == s # <<>> /\ Head(s) = ch

\* sep.join(groups)
RECURSIVE Join(_, _)
Join(groups, sep) ==
    IF groups = <<>> THEN <<>>
    ELSE IF Len(groups) = 1 THEN groups[1]
    ELSE groups[1] \o <<sep>> \o Join(Tail(groups), sep)

\* s.split(sep): the inverse reading of a joined string.
RECURSIVE SplitFrom(_, _, _)
SplitFrom(s, sep, cur) ==
    IF s = <<>> THEN <<cur>>
    ELSE IF Head(s) = sep THEN <<cur>> \o SplitFrom(Tail(s), sep, <<>>)
    ELSE SplitFrom(Tail(s), sep, Append(cur, Head(s)))

Split(s, sep) == SplitFrom(s, sep, <<>>)

\* --------------------------------------------------------------- constants
\* B64_SVG_LEN_MAP: length of a key's image reference -> digit.
B64_SVG_LEN_MAP ==
    (419 :> 0) @@ (259 :> 1) @@ (1131 :> 2) @@ (979 :> 3) @@ (763 :> 4) @@
    (839 :> 5) @@ (1075 :> 6) @@ (1359 :> 7) @@ (1023 :> 8) @@ (1047 :> 9)

Digits == 0..9

\* The PIN length accepted by main().
PinLength == 8

\* ------------------------------------------------------------ pure functions
\* re.compile(r"form\[_token\]") searched in an input's name: the names of the
\* model that contain form[_token].
MatchesFormToken(name) == name \in {"form[_token]", "login_form[_token]"}

\* The names an input of the model can carry.
InputNames == {"form[_token]", "login_form[_token]", "_token", "csrf"}

\* The names each of the two lookups accepts.
PrimaryNames == {n \in InputNames : MatchesFormToken(n)}

FallbackNames == {"_token"}

\* soup.find("input", attrs={"name": ...}): the first input, in document
\* order, whose name the matcher accepts; 0 when there is none.
RECURSIVE FindInput(_, _, _)
FindInput(inputs_of_page, accepted, i) ==
    IF i > Len(inputs_of_page) THEN 0
    ELSE IF inputs_of_page[i].name \in accepted THEN i
    ELSE FindInput(inputs_of_page, accepted, i + 1)

\* token_input.get("value") of the input found, NoElem when nothing was found
\* (an input without the attribute carries NoElem already).
FoundValue(inputs_of_page, accepted) ==
    LET i == FindInput(inputs_of_page, accepted, 1) IN
    IF i = 0 THEN NoElem ELSE inputs_of_page[i].value

\* The two lookups extract_token_from_login makes in a page.
PageView(inputs_of_page) ==
    [primary  |-> FoundValue(inputs_of_page, PrimaryNames),
     fallback |-> FoundValue(inputs_of_page, FallbackNames)]

\* Mutation: the lookup of an input named _token is left out.
ExtractTokenPrimaryOnly(page) ==
    IF page.primary # NoElem /\ page.primary # "" THEN page.primary
    ELSE None

\* A login page as extract_token_from_login sees it: the value of the first
\* input whose name matches form[_token], and of the first input named _token
\* (NoElem: no such input; "": an input without a value).
extract_token_from_login(page) ==
    IF page.primary # NoElem /\ page.primary # "" THEN page.primary
    ELSE IF page.fallback # NoElem /\ page.fallback # "" THEN page.fallback
    ELSE None

\* build_encoded_password: the loop over the PIN's characters.  The result is
\* [raised |-> TRUE] when a digit has no group (ValueError), otherwise the
\* joined string.
RECURSIVE EncodeLoop(_, _, _)
EncodeLoop(pin, digit_to_group, groups) ==
    IF pin = <<>> THEN [raised |-> FALSE, value |-> Join(groups, "|")]
    ELSE IF Head(pin) \notin DigitChars
         THEN [raised |-> TRUE, value |-> <<>>]
    ELSE LET d == DigitValue(Head(pin)) IN
         IF d \notin DOMAIN digit_to_group
         THEN [raised |-> TRUE, value |-> <<>>]
         ELSE EncodeLoop(Tail(pin), digit_to_group,
                         Append(groups, digit_to_group[d]))

\* Mutation: a digit without a group is skipped instead of raising.
RECURSIVE EncodeLoopSkipUnmapped(_, _, _)
EncodeLoopSkipUnmapped(pin, digit_to_group, groups) ==
    IF pin = <<>> THEN [raised |-> FALSE, value |-> Join(groups, "|")]
    ELSE LET d == DigitValue(Head(pin)) IN
         IF d \notin DOMAIN digit_to_group
         THEN EncodeLoopSkipUnmapped(Tail(pin), digit_to_group, groups)
         ELSE EncodeLoopSkipUnmapped(Tail(pin), digit_to_group,
                                     Append(groups, digit_to_group[d]))

build_encoded_password_skip(numeric_password, digit_to_group) ==
    EncodeLoopSkipUnmapped(numeric_password, digit_to_group, <<>>)

\* Mutation: a digit already encoded is not encoded again.
RECURSIVE EncodeLoopDedup(_, _, _, _)
EncodeLoopDedup(pin, digit_to_group, groups, seen) ==
    IF pin = <<>> THEN [raised |-> FALSE, value |-> Join(groups, "|")]
    ELSE LET d == DigitValue(Head(pin)) IN
         IF d \notin DOMAIN digit_to_group
         THEN [raised |-> TRUE, value |-> <<>>]
         ELSE IF d \in seen
         THEN EncodeLoopDedup(Tail(pin), digit_to_group, groups, seen)
         ELSE EncodeLoopDedup(Tail(pin), digit_to_group,
                              Append(groups, digit_to_group[d]), seen \cup {d})

build_encoded_password_dedup(numeric_password, digit_to_group) ==
    EncodeLoopDedup(numeric_password, digit_to_group, <<>>, {})

build_encoded_password(numeric_password, digit_to_group) ==
    EncodeLoop(numeric_password, digit_to_group, <<>>)

\* ------------------------------------------------------------ keypad decoding
\* A key of the keypad fragment, an element carrying data-matrix-key:
\* label is the attribute's value, img the length of the nested <img>'s src,
\* NoImg when the element has no <img>, NoSrc when the <img> has no src.
NoImg == -1
NoSrc == -2
\* path_len before its first assignment.
Unbound == -3

Key(label, img) == [label |-> label, img |-> img]

\* mapping[int(digit)] = matrix_key
Put(mapping, digit, matrix_key) ==
    [d \in (DOMAIN mapping) \cup {digit} |->
        IF d = digit THEN matrix_key ELSE mapping[d]]

\* Mutation: "if not digit" instead of "if digit is None" drops digit 0.
DecodeStepFalsyZero(st, btn) ==
    IF st.raised \/ btn.img = NoSrc THEN [st EXCEPT !.raised = TRUE]
    ELSE LET path_len == IF btn.img = NoImg THEN st.path_len ELSE btn.img IN
         IF path_len = Unbound THEN [st EXCEPT !.raised = TRUE]
         ELSE IF path_len \notin DOMAIN B64_SVG_LEN_MAP
                 \/ B64_SVG_LEN_MAP[path_len] = 0
         THEN [st EXCEPT !.path_len = path_len]
         ELSE [mapping  |-> Put(st.mapping, B64_SVG_LEN_MAP[path_len], btn.label),
               path_len |-> path_len,
               raised   |-> FALSE]

\* One iteration of the loop over soup.select("[data-matrix-key]").
\* path_len is assigned only when the key has an <img>; otherwise the value
\* left by the previous iteration is read, and reading it before any
\* assignment raises UnboundLocalError.  len(None) raises TypeError.
DecodeStep(st, btn) ==
    IF st.raised \/ btn.img = NoSrc THEN [st EXCEPT !.raised = TRUE]
    ELSE LET path_len == IF btn.img = NoImg THEN st.path_len ELSE btn.img IN
         IF path_len = Unbound THEN [st EXCEPT !.raised = TRUE]
         ELSE IF path_len \notin DOMAIN B64_SVG_LEN_MAP
         THEN [st EXCEPT !.path_len = path_len]
         ELSE [mapping  |-> Put(st.mapping, B64_SVG_LEN_MAP[path_len], btn.label),
               path_len |-> path_len,
               raised   |-> FALSE]

RECURSIVE DecodeLoop(_, _)
DecodeLoop(st, keys) ==
    IF keys = <<>> THEN st ELSE DecodeLoop(DecodeStep(st, Head(keys)), Tail(keys))

\* The whole decode of one fragment, from mapping = {}.
DecodeKeys(keys) ==
    DecodeLoop([mapping |-> <<>>, path_len |-> Unbound, raised |-> FALSE], keys)

\* ------------------------------------------------------------ response checks
\* No response at all: the request raised (connection error, timeout).
NetErr == 0

\* Response.raise_for_status()
RaisesForStatus(status) == status >= 400 /\ status < 600

\* Mutation: only a client error (4xx) is taken for a failed login.
LoginStatusOkLax(status) == status < 400 \/ status >= 500

\* post_resp.status_code in (200, 302)
LoginStatusOk(status) == status \in {200, 302}

\* "text/csv" in content_type
ContainsTextCsv(content_type) ==
    content_type \in {"text/csv", "text/csv; charset=UTF-8"}

\* Mutation: the status test is dropped.
ExportRejectedNoStatus(resp) ==
    ~ContainsTextCsv(resp.ctype) /\ StartsWith(LStrip(resp.body), "<")

\* Mutation: the response is refused only when status and markup test both fail.
ExportRejectedAnd(resp) ==
    resp.status # 200
    /\ ~ContainsTextCsv(resp.ctype) /\ StartsWith(LStrip(resp.body), "<")

\* The two early returns after the export GET.
ExportRejected(resp) ==
    \/ resp.status # 200
    \/ ~ContainsTextCsv(resp.ctype) /\ StartsWith(LStrip(resp.body), "<")

\* pd.read_csv raises EmptyDataError, with either separator, on an empty body.
ReadCsvRaises(body) == body = <<>>

\* params['movementSearch[selectedAccounts][]'] after the budget page was read.
ResolveAccount(account, resp) ==
    IF resp.status # 200 THEN account
    ELSE IF resp.acc_input \notin {NoElem, ""} THEN resp.acc_input
    ELSE IF resp.opt \notin {NoElem, ""} THEN resp.opt
    ELSE account

\* Mutation: the test of the identifier is dropped.
AccountMissingNever(acc) == FALSE

\* not params['movementSearch[selectedAccounts][]']
AccountMissing(acc) == acc = ""

\* Mutation: the PIN's length is not tested.
InputsValidAnyLength(client, pin) ==
    IsDigit(client) /\ IsDigit(pin)

\* The two input checks at the head of main().
InputsValid(client, pin) ==
    IsDigit(client) /\ IsDigit(pin) /\ Len(pin) = PinLength

\* ------------------------------------------------------------------- inputs
\* Arguments of main().
ClientNumbers == { <<"4", "2">>, <<"4", "x">>, <<>> }

Pins ==
    { <<"1", "2", "3", "4", "5", "6", "7", "8">>,
      <<"0", "0", "9", "9", "8", "8", "7", "7">>,
      <<"1", "2", "3", "4", "5", "6", "7">>,
      <<"1", "2", "3", "4", "5", "6", "7", "x">> }

Accounts == { "", "ACC1" }

\* Login page, first GET: the status and the value of the __brs_mit
\* assignment found by the regular expression (NoElem: no match).
Login1Responses ==
    [status : {200, 500, NetErr}, mit : {NoElem, "mit1"}]

\* Login page, second GET.
Login2Responses ==
    [status : {200, 500, NetErr},
     primary : {NoElem, "", "T1"}, fallback : {NoElem, "", "T2"}]

\* Keypad fragments.  The server assigns the labels by position and shuffles
\* the digits: key i carries label Label(i) and the image of digit order[i].
Letters == <<"A", "B", "C", "D", "E", "F", "G", "H", "I", "J">>

Label(i) == <<Letters[i], Letters[i], Letters[i]>>

LabelWithDelimiter == <<"A", "|", "B">>

ExtraLabel == <<"Z", "Z", "Z">>

\* A length that is in no entry of B64_SVG_LEN_MAP.
UnknownLen == 100

SigOf(d) == CHOOSE n \in DOMAIN B64_SVG_LEN_MAP : B64_SVG_LEN_MAP[n] = d

Orders ==
    { [i \in 1..10 |-> i - 1],
      [i \in 1..10 |-> 10 - i],
      [i \in 1..10 |-> (i + 2) % 10],
      [i \in 1..10 |-> (7 * i) % 10] }

FullKeypad(order) == [i \in 1..10 |-> Key(Label(i), SigOf(order[i]))]

DropKey(keys, p) ==
    [i \in 1..(Len(keys) - 1) |-> IF i < p THEN keys[i] ELSE keys[i + 1]]

KeypadVariants(keys, p) ==
    { DropKey(keys, p),
      [keys EXCEPT ![p].img = UnknownLen],
      [keys EXCEPT ![p].img = NoImg],
      [keys EXCEPT ![p].img = NoSrc],
      [keys EXCEPT ![p].label = LabelWithDelimiter],
      [keys EXCEPT ![p].label = <<>>],
      Append(keys, Key(ExtraLabel, keys[p].img)) }

Keypads ==
    { <<>> }
    \cup { FullKeypad(o) : o \in Orders }
    \cup UNION { KeypadVariants(FullKeypad(o), p) :
                    o \in Orders, p \in 1..MaxDefectPos }

\* Keypad GET: the keys and the value found by the challenge regular
\* expression (NoElem: no match).
ClavierResponses ==
    [status : {200}, keys : Keypads, challenge : {NoElem, "CH1"}]
    \cup [status : {500, NetErr}, keys : { <<>> }, challenge : {NoElem}]

PostStatuses == {200, 204, 302, 403, 500, NetErr}

\* Budget page: the value of the first element named
\* movementSearch[selectedAccounts][] and of the first <option> of the select.
BudgetResponses ==
    [status : {200}, acc_input : {NoElem, "", "ACC2"}, opt : {NoElem, "ACC3"}]
    \cup [status : {500, NetErr}, acc_input : {NoElem}, opt : {NoElem}]

Bodies ==
    { <<"<", "h">>, <<" ", "<">>, <<"a", ";", "b">>, <<>> }

ContentTypes == { "text/csv; charset=UTF-8", "text/html", "" }

ExportResponses ==
    [status : {200, 204}, ctype : ContentTypes, body : Bodies]
    \cup [status : {500}, ctype : {"text/html"}, body : { <<"<", "h">> }]
    \cup [status : {NetErr}, ctype : {""}, body : { <<>> }]

\* -------------------------------------------------------------------- state
VARIABLES
    pc,                      \* the next step of main()
    outcome,                 \* "running", "returned", "raised", "completed"
    failure,                 \* why the run ended early
    dry_run, client_number, numeric_password, account,
    requests,                \* every request the session issued, in order
    session_mit,             \* the session's __brs_mit cookie
    token,
    resp_clavier,
    mapping,
    encoded_password,
    matrix_random_challenge,
    post_status,
    params_account,          \* params['movementSearch[selectedAccounts][]']
    csv_resp,
    output_file,             \* <<>>, or the parts of account_name_output
    last_run_written,        \* SAVE_FILE written by this run
    login_page,              \* the markup handed to extract_token_from_login
    driver                   \* the __main__ block: clock, SAVE_FILE, position

vars ==
    << pc, outcome, failure, dry_run, client_number, numeric_password, account,
       requests, session_mit, token, resp_clavier, mapping, encoded_password,
       matrix_random_challenge, post_status, params_account,
       csv_resp, output_file, last_run_written, login_page, driver >>

\* What no step of main() assigns.
inputs ==
    << dry_run, client_number, numeric_password, account, login_page, driver >>

\* SAVE_FILE as the __main__ block finds it: Absent when os.path.exists is
\* false, Invalid when its text is no ISO-8601 date, otherwise the instant it
\* holds, in units of half a day.
Absent == -1

Invalid == -2

\* len(sys.argv) of a well-formed command line.
ExpectedArgc == 5

\* The __main__ block is not running.
NoDriver ==
    [pc |-> "none", argc |-> ExpectedArgc, now |-> 0, stored |-> Absent,
     read |-> FALSE, exit |-> "none"]

NoResponse == [status |-> -1, ctype |-> "", body |-> <<>>]

NoClavier == [keys |-> <<>>, challenge |-> NoElem]

\* A request as the server sees it.
Request(ep, tok, pwd, chal, acc) ==
    [ep |-> ep, mit |-> session_mit, token |-> tok, password |-> pwd,
     challenge |-> chal, account |-> acc]

Get(ep) == Request(ep, None, <<>>, None, None)

Issued(ep) == \E i \in 1..Len(requests) : requests[i].ep = ep

Init ==
    /\ pc = "validate"
    /\ outcome = "running"
    /\ failure = "none"
    /\ dry_run \in BOOLEAN
    /\ client_number \in ClientNumbers
    /\ numeric_password \in Pins
    /\ account \in Accounts
    /\ requests = <<>>
    /\ session_mit = None
    /\ token = None
    /\ resp_clavier = NoClavier
    /\ mapping = <<>>
    /\ encoded_password = <<>>
    /\ matrix_random_challenge = None
    /\ post_status = -1
    /\ params_account = None
    /\ csv_resp = NoResponse
    /\ output_file = <<>>
    /\ last_run_written = FALSE
    /\ login_page = <<>>
    /\ driver = NoDriver

\* The run ends here: a return with a message, or an exception.
Stop(how, why) ==
    /\ pc' = "done"
    /\ outcome' = how
    /\ failure' = why

Goto(next) ==
    /\ pc' = next
    /\ UNCHANGED << outcome, failure >>

\* ------------------------------------------------------------------ actions
\* Mutation: dry_run is not consulted.
ValidateIgnoringDryRun ==
    /\ pc = "validate"
    /\ IF ~InputsValid(client_number, numeric_password)
       THEN Stop("returned", "input")
       ELSE Goto("login1")
    /\ UNCHANGED << inputs, requests, session_mit, token, resp_clavier, mapping,
                    encoded_password, matrix_random_challenge, post_status,
                    params_account, csv_resp, output_file, last_run_written >>

\* Lines 92-109: the two input checks, then the branch on dry_run.
Validate ==
    /\ pc = "validate"
    /\ IF ~InputsValid(client_number, numeric_password)
       THEN Stop("returned", "input")
       ELSE IF dry_run THEN Goto("write") ELSE Goto("login1")
    /\ UNCHANGED << inputs, requests, session_mit, token, resp_clavier, mapping,
                    encoded_password, matrix_random_challenge, post_status,
                    params_account, csv_resp, output_file, last_run_written >>

\* Mutation: a page without the cookie assignment is let through.
GetLogin1WithoutCookieCheck ==
    /\ pc = "login1"
    /\ \E resp \in Login1Responses :
        /\ requests' = Append(requests, Get("login"))
        /\ IF resp.status = NetErr \/ RaisesForStatus(resp.status)
           THEN Stop("raised", "http") /\ UNCHANGED session_mit
           ELSE IF resp.mit = NoElem
           THEN Goto("login2") /\ UNCHANGED session_mit
           ELSE Goto("login2") /\ session_mit' = resp.mit
    /\ UNCHANGED << inputs, token, resp_clavier, mapping, encoded_password,
                    matrix_random_challenge, post_status, params_account,
                    csv_resp, output_file, last_run_written >>

\* Lines 117-128: first GET of the login page, the cookie is read from the
\* inline script and set in the session.
GetLogin1 ==
    /\ pc = "login1"
    /\ \E resp \in Login1Responses :
        /\ requests' = Append(requests, Get("login"))
        /\ IF resp.status = NetErr \/ RaisesForStatus(resp.status)
           THEN Stop("raised", "http") /\ UNCHANGED session_mit
           ELSE IF resp.mit = NoElem
           THEN Stop("raised", "cookie") /\ UNCHANGED session_mit
           ELSE Goto("login2") /\ session_mit' = resp.mit
    /\ UNCHANGED << inputs, token, resp_clavier, mapping, encoded_password,
                    matrix_random_challenge, post_status, params_account,
                    csv_resp, output_file, last_run_written >>

\* Lines 130-138: second GET of the login page and the token extraction.  A
\* missing token is only reported by debug().
GetLogin2 ==
    /\ pc = "login2"
    /\ \E resp \in Login2Responses :
        /\ requests' = Append(requests, Get("login"))
        /\ IF resp.status = NetErr \/ RaisesForStatus(resp.status)
           THEN Stop("raised", "http") /\ UNCHANGED token
           ELSE Goto("clavier") /\ token' = extract_token_from_login(resp)
    /\ UNCHANGED << inputs, session_mit, resp_clavier, mapping, encoded_password,
                    matrix_random_challenge, post_status, params_account,
                    csv_resp, output_file, last_run_written >>

\* Mutation: a failed keypad GET is tried again.
GetClavierRetrying ==
    /\ pc = "clavier"
    /\ \E resp \in ClavierResponses :
        /\ requests' = Append(requests, Get("clavier"))
        /\ IF resp.status = NetErr \/ RaisesForStatus(resp.status)
           THEN UNCHANGED << pc, outcome, failure, resp_clavier >>
           ELSE /\ Goto("decode")
                /\ resp_clavier' = [keys |-> resp.keys, challenge |-> resp.challenge]
    /\ UNCHANGED << inputs, session_mit, token, mapping, encoded_password,
                    matrix_random_challenge, post_status, params_account,
                    csv_resp, output_file, last_run_written >>

\* Lines 153-155: GET of the keypad fragment.
GetClavier ==
    /\ pc = "clavier"
    /\ \E resp \in ClavierResponses :
        /\ requests' = Append(requests, Get("clavier"))
        /\ IF resp.status = NetErr \/ RaisesForStatus(resp.status)
           THEN Stop("raised", "http") /\ UNCHANGED resp_clavier
           ELSE /\ Goto("decode")
                /\ resp_clavier' = [keys |-> resp.keys, challenge |-> resp.challenge]
    /\ UNCHANGED << inputs, session_mit, token, mapping, encoded_password,
                    matrix_random_challenge, post_status, params_account,
                    csv_resp, output_file, last_run_written >>

\* Lines 158-178: the decoding loop.  An incomplete mapping is only reported.
DecodeKeypad ==
    /\ pc = "decode"
    /\ LET st == DecodeKeys(resp_clavier.keys) IN
        IF st.raised
        THEN Stop("raised", "keypad") /\ UNCHANGED mapping
        ELSE Goto("encode") /\ mapping' = st.mapping
    /\ UNCHANGED << inputs, requests, session_mit, token, resp_clavier,
                    encoded_password, matrix_random_challenge, post_status,
                    params_account, csv_resp, output_file, last_run_written >>

\* Mutation: a fragment without challenge ends the run.
EncodePasswordChallengeRequired ==
    /\ pc = "encode"
    /\ LET enc == build_encoded_password(numeric_password, mapping) IN
        IF enc.raised
        THEN /\ Stop("returned", "encoding")
             /\ UNCHANGED << encoded_password, matrix_random_challenge >>
        ELSE IF resp_clavier.challenge = NoElem
        THEN /\ Stop("returned", "challenge")
             /\ encoded_password' = enc.value
             /\ UNCHANGED matrix_random_challenge
        ELSE /\ Goto("post")
             /\ encoded_password' = enc.value
             /\ matrix_random_challenge' = resp_clavier.challenge
    /\ UNCHANGED << inputs, requests, session_mit, token, resp_clavier, mapping,
                    post_status, params_account, csv_resp, output_file,
                    last_run_written >>

\* Mutation: the keypad is requested again for the challenge.
EncodePasswordSecondFetch ==
    /\ pc = "encode"
    /\ LET enc == build_encoded_password(numeric_password, mapping) IN
        IF enc.raised
        THEN /\ Stop("returned", "encoding")
             /\ UNCHANGED << encoded_password, matrix_random_challenge, requests >>
        ELSE \E again \in {"CH1", "CH2"} :
             /\ Goto("post")
             /\ requests' = Append(requests, Get("clavier"))
             /\ encoded_password' = enc.value
             /\ matrix_random_challenge' = again
    /\ UNCHANGED << inputs, session_mit, token, resp_clavier, mapping,
                    post_status, params_account, csv_resp, output_file,
                    last_run_written >>

\* Lines 187-205: the password is encoded (any exception ends the run with a
\* message) and the challenge is read from the same fragment.
EncodePassword ==
    /\ pc = "encode"
    /\ LET enc == build_encoded_password(numeric_password, mapping) IN
        IF enc.raised
        THEN /\ Stop("returned", "encoding")
             /\ UNCHANGED << encoded_password, matrix_random_challenge >>
        ELSE /\ Goto("post")
             /\ encoded_password' = enc.value
             /\ matrix_random_challenge' =
                    IF resp_clavier.challenge = NoElem THEN None
                    ELSE resp_clavier.challenge
    /\ UNCHANGED << inputs, requests, session_mit, token, resp_clavier, mapping,
                    post_status, params_account, csv_resp, output_file,
                    last_run_written >>

\* Lines 210-232: the login POST and the test of its status.
PostLogin ==
    /\ pc = "post"
    /\ \E status \in PostStatuses :
        /\ requests' = Append(requests,
               Request("post", token, encoded_password,
                       matrix_random_challenge, None))
        /\ post_status' = status
        /\ IF status = NetErr THEN Stop("raised", "http")
           ELSE IF ~LoginStatusOk(status) THEN Stop("returned", "auth")
           ELSE Goto("budget")
    /\ UNCHANGED << inputs, session_mit, token, resp_clavier, mapping,
                    encoded_password, matrix_random_challenge, params_account,
                    csv_resp, output_file, last_run_written >>

\* Lines 244-274: the parameters start from the caller's account, the budget
\* page is fetched in every run and what it yields replaces the account.
GetBudget ==
    /\ pc = "budget"
    /\ \E resp \in BudgetResponses :
        /\ requests' = Append(requests, Get("budget"))
        /\ IF resp.status = NetErr
           THEN Stop("raised", "http") /\ UNCHANGED params_account
           ELSE /\ params_account' = ResolveAccount(account, resp)
                /\ IF AccountMissing(params_account')
                   THEN Stop("returned", "account")
                   ELSE Goto("export")
    /\ UNCHANGED << inputs, session_mit, token, resp_clavier, mapping,
                    encoded_password, matrix_random_challenge, post_status,
                    csv_resp, output_file, last_run_written >>

\* Lines 277-288: the export GET and the two checks of its response.
GetExport ==
    /\ pc = "export"
    /\ \E resp \in ExportResponses :
        /\ requests' = Append(requests,
               Request("export", None, <<>>, None, params_account))
        /\ csv_resp' = resp
        /\ IF resp.status = NetErr THEN Stop("raised", "http")
           ELSE IF ExportRejected(resp) THEN Stop("returned", "export")
           ELSE Goto("parse")
    /\ UNCHANGED << inputs, session_mit, token, resp_clavier, mapping,
                    encoded_password, matrix_random_challenge, post_status,
                    params_account, output_file, last_run_written >>

\* Mutation: the date is saved as soon as the export is accepted.
ParseCsvSavingDate ==
    /\ pc = "parse"
    /\ IF ReadCsvRaises(csv_resp.body)
       THEN Stop("raised", "parse")
       ELSE Goto("write")
    /\ last_run_written' = TRUE
    /\ UNCHANGED << inputs, requests, session_mit, token, resp_clavier, mapping,
                    encoded_password, matrix_random_challenge, post_status,
                    params_account, csv_resp, output_file >>

\* Lines 291-301: pd.read_csv on the accepted body.
ParseCsv ==
    /\ pc = "parse"
    /\ IF ReadCsvRaises(csv_resp.body)
       THEN Stop("raised", "parse")
       ELSE Goto("write")
    /\ UNCHANGED << inputs, requests, session_mit, token, resp_clavier, mapping,
                    encoded_password, matrix_random_challenge, post_status,
                    params_account, csv_resp, output_file, last_run_written >>

\* Lines 302-311: the output file, named after the account exported (after
\* dry_run_<account> in a dry run).
WriteOutput ==
    /\ pc = "write"
    /\ output_file' = IF dry_run THEN <<"dry_run_", account>>
                      ELSE <<params_account>>
    /\ Goto("save")
    /\ UNCHANGED << inputs, requests, session_mit, token, resp_clavier, mapping,
                    encoded_password, matrix_random_challenge, post_status,
                    params_account, csv_resp, last_run_written >>

\* Lines 313-315: the date of this run is saved.
SaveLastRun ==
    /\ pc = "save"
    /\ last_run_written' = TRUE
    /\ Stop("completed", "none")
    /\ UNCHANGED << inputs, requests, session_mit, token, resp_clavier, mapping,
                    encoded_password, matrix_random_challenge, post_status,
                    params_account, csv_resp, output_file >>

Next ==
    \/ Validate
    \/ GetLogin1
    \/ GetLogin2
    \/ GetClavier
    \/ DecodeKeypad
    \/ EncodePassword
    \/ PostLogin
    \/ GetBudget
    \/ GetExport
    \/ ParseCsv
    \/ WriteOutput
    \/ SaveLastRun

Spec == Init /\ [][Next]_vars

\* --------------------------------------------------- the encoder on its own
\* build_encoded_password applied to PINs of 1..MaxPinLen digits and to the
\* mappings the decoder yields for the keypad fragments above.
PinDigitChars == {"0", "1", "3", "9"}

RECURSIVE SeqsUpTo(_, _)
SeqsUpTo(S, n) ==
    IF n = 0 THEN { <<>> }
    ELSE LET shorter == SeqsUpTo(S, n - 1) IN
         shorter \cup { Append(q, x) : q \in shorter, x \in S }

EncoderPins == SeqsUpTo(PinDigitChars, MaxPinLen) \ { <<>> }

EncoderMappings ==
    { DecodeKeys(k).mapping : k \in { kk \in Keypads : ~DecodeKeys(kk).raised } }

InitEncoder ==
    /\ pc = "encoder"
    /\ outcome = "running"
    /\ failure = "none"
    /\ dry_run = FALSE
    /\ client_number = <<>>
    /\ numeric_password \in EncoderPins
    /\ account = ""
    /\ requests = <<>>
    /\ session_mit = None
    /\ token = None
    /\ resp_clavier = NoClavier
    /\ mapping \in EncoderMappings
    /\ encoded_password = <<>>
    /\ matrix_random_challenge = None
    /\ post_status = -1
    /\ params_account = None
    /\ csv_resp = NoResponse
    /\ output_file = <<>>
    /\ last_run_written = FALSE
    /\ login_page = <<>>
    /\ driver = NoDriver

\* Lines 72-85: one call; a ValueError leaves the function without a value.
EncoderCall ==
    /\ pc = "encoder"
    /\ LET enc == build_encoded_password(numeric_password, mapping) IN
        IF enc.raised
        THEN /\ pc' = "encoder_done"
             /\ outcome' = "raised"
             /\ failure' = "encoding"
             /\ UNCHANGED encoded_password
        ELSE /\ pc' = "encoder_done"
             /\ outcome' = "returned"
             /\ failure' = "none"
             /\ encoded_password' = enc.value
    /\ UNCHANGED << inputs, requests, session_mit, token, resp_clavier, mapping,
                    matrix_random_challenge, post_status, params_account,
                    csv_resp, output_file, last_run_written >>

NextEncoder == EncoderCall

SpecEncoder == InitEncoder /\ [][NextEncoder]_vars

\* --------------------------------------------------- the decoder on its own
\* The decoding loop applied to fragments whose 10 keys come in more orders:
\* the affine shuffles i -> (m*i + r) mod 10 and the identity with two keys
\* exchanged, each also with one defect.
Shuffles ==
    { [i \in 1..10 |-> (m * i + r) % 10] : m \in {1, 3, 7, 9}, r \in Digits }

Exchange(a, b) ==
    [i \in 1..10 |-> IF i = a THEN b - 1 ELSE IF i = b THEN a - 1 ELSE i - 1]

Exchanges == { Exchange(a, b) : a \in 1..10, b \in 1..10 }

DecoderKeypads ==
    Keypads
    \cup { FullKeypad(o) : o \in Shuffles \cup Exchanges }
    \cup UNION { KeypadVariants(FullKeypad(o), p) :
                    o \in Shuffles \cup Exchanges, p \in 1..MaxDefectPos }

InitDecoder ==
    /\ pc = "decoder"
    /\ outcome = "running"
    /\ failure = "none"
    /\ dry_run = FALSE
    /\ client_number = <<>>
    /\ numeric_password = <<>>
    /\ account = ""
    /\ requests = <<>>
    /\ session_mit = None
    /\ token = None
    /\ resp_clavier \in [keys : DecoderKeypads, challenge : {NoElem}]
    /\ mapping = <<>>
    /\ encoded_password = <<>>
    /\ matrix_random_challenge = None
    /\ post_status = -1
    /\ params_account = None
    /\ csv_resp = NoResponse
    /\ output_file = <<>>
    /\ last_run_written = FALSE
    /\ login_page = <<>>
    /\ driver = NoDriver

\* Lines 158-178 alone.
DecoderRun ==
    /\ pc = "decoder"
    /\ LET st == DecodeKeys(resp_clavier.keys) IN
        IF st.raised
        THEN /\ outcome' = "raised"
             /\ failure' = "keypad"
             /\ UNCHANGED mapping
        ELSE /\ outcome' = "returned"
             /\ failure' = "none"
             /\ mapping' = st.mapping
    /\ pc' = "decoder_done"
    /\ UNCHANGED << inputs, requests, session_mit, token, resp_clavier,
                    encoded_password, matrix_random_challenge, post_status,
                    params_account, csv_resp, output_file, last_run_written >>

NextDecoder == DecoderRun

SpecDecoder == InitDecoder /\ [][NextDecoder]_vars

\* ------------------------------------------------------------------ claims
\* ------------------------------------------------- the token extractor alone
MaxInputs == 2

InputValues == {NoElem, "", "T1", "T2"}

PageInputs == [name : InputNames, value : InputValues]

LoginPages == UNION {[1..n -> PageInputs] : n \in 0..MaxInputs}

InitToken ==
    /\ pc = "token"
    /\ outcome = "running"
    /\ failure = "none"
    /\ dry_run = FALSE
    /\ client_number = <<>>
    /\ numeric_password = <<>>
    /\ account = ""
    /\ requests = <<>>
    /\ session_mit = None
    /\ token = None
    /\ resp_clavier = NoClavier
    /\ mapping = <<>>
    /\ encoded_password = <<>>
    /\ matrix_random_challenge = None
    /\ post_status = -1
    /\ params_account = None
    /\ csv_resp = NoResponse
    /\ output_file = <<>>
    /\ last_run_written = FALSE
    /\ login_page \in LoginPages
    /\ driver = NoDriver

\* One call of extract_token_from_login(html_text).
TokenCall ==
    /\ pc = "token"
    /\ token' = extract_token_from_login(PageView(login_page))
    /\ pc' = "token_done"
    /\ outcome' = "returned"
    /\ UNCHANGED << inputs, failure, requests, session_mit, resp_clavier, mapping,
                    encoded_password, matrix_random_challenge, post_status,
                    params_account, csv_resp, output_file, last_run_written >>

NextToken == TokenCall

SpecToken == InitToken /\ [][NextToken]_vars

NothingWritten == output_file = <<>> /\ ~last_run_written

\* C1: when the login POST receives a status other than 200 or 302, the run
\* ends as an authentication failure and nothing later happens: no budget
\* GET, no export GET, no output file, no last-run timestamp.
C1_AuthFailureEndsRun ==
    (post_status \notin {-1, NetErr, 200, 302}) =>
        /\ pc = "done"
        /\ outcome = "returned"
        /\ failure = "auth"
        /\ ~Issued("budget")
        /\ ~Issued("export")
        /\ NothingWritten

C1_Witness ==
    /\ post_status = 500
    /\ pc = "done"
    /\ Issued("post")

\* C2: a missing login token is fatal: the keypad GET and the login POST are
\* never issued once the second login page has yielded no token.
C2_MissingTokenIsFatal ==
    \A i \in 1..Len(requests) :
        /\ requests[i].ep = "clavier" => token # None
        /\ requests[i].ep = "post" => requests[i].token # None

\* C3: when the PIN holds a digit the mapping has no label for, the encoder
\* raises and yields no encoded string at all, the run returns with the
\* encoding error, and neither the login POST nor any later request is issued.
HasUnmappableDigit(pin, m) ==
    \E i \in 1..Len(pin) : DigitValue(pin[i]) \notin DOMAIN m

EncoderReached ==
    /\ pc = "done"
    /\ Issued("clavier")
    /\ failure \notin {"http", "keypad"}

C3_UnmappableDigitAborts ==
    ( /\ ~dry_run
      /\ IsDigit(numeric_password)
      /\ HasUnmappableDigit(numeric_password, mapping) ) =>
        /\ encoded_password = <<>>
        /\ ~Issued("post")
        /\ ~Issued("budget")
        /\ ~Issued("export")
        /\ NothingWritten
        /\ pc \in {"validate", "login1", "login2", "clavier", "decode",
                   "encode", "done"}
        /\ EncoderReached => outcome = "returned" /\ failure = "encoding"

C3_Witness ==
    /\ failure = "encoding"
    /\ pc = "done"
    /\ mapping # <<>>
    /\ HasUnmappableDigit(numeric_password, mapping)

\* C4: for a mapping covering the digits 0-9, the encoder's result, read back
\* by splitting it at '|', has as many elements as the PIN has digits, and its
\* i-th element is the mapping's label of the PIN's i-th digit.
LabelsOf(pin, m) == [i \in 1..Len(pin) |-> m[DigitValue(pin[i])]]

EncodedAsClaimed ==
    /\ outcome # "raised"
    /\ LET parts == Split(encoded_password, "|") IN
        /\ Len(parts) = Len(numeric_password)
        /\ \A i \in 1..Len(numeric_password) :
              parts[i] = LabelsOf(numeric_password, mapping)[i]

C4_EncoderJoinsLabels ==
    (pc = "encoder_done" /\ DOMAIN mapping = Digits) => EncodedAsClaimed

\* C4, amended: the same, for a mapping none of whose labels contains '|'
\* and a PIN of at least one digit.
NoDelimiterIn(m) ==
    \A d \in DOMAIN m : \A i \in 1..Len(m[d]) : m[d][i] # "|"

C4_EncoderJoinsDelimiterFreeLabels ==
    ( /\ pc = "encoder_done"
      /\ DOMAIN mapping = Digits
      /\ NoDelimiterIn(mapping)
      /\ Len(numeric_password) >= 1 ) => EncodedAsClaimed

C4_Witness ==
    /\ pc = "encoder_done"
    /\ DOMAIN mapping = Digits
    /\ NoDelimiterIn(mapping)
    /\ Len(numeric_password) = 3
    /\ numeric_password[1] = numeric_password[3]
    /\ encoded_password # <<>>

\* C5: a fragment of exactly 10 keys whose images carry the 10 lengths of the
\* signature table, in whatever order, decodes to a mapping of size 10 whose
\* keys are the digits 0-9.
CompleteKeypad(keys) ==
    /\ Len(keys) = 10
    /\ { keys[i].img : i \in 1..Len(keys) } = DOMAIN B64_SVG_LEN_MAP

KeypadDecoded ==
    \/ pc = "decoder_done"
    \/ Issued("clavier") /\ pc # "decode" /\ pc # "clavier"

C5_CompleteKeypadGivesTenDigits ==
    (KeypadDecoded /\ CompleteKeypad(resp_clavier.keys)) =>
        /\ failure # "keypad"
        /\ DOMAIN mapping = Digits
        /\ Cardinality(DOMAIN mapping) = 10

C5_Witness ==
    /\ pc = "decoder_done"
    /\ CompleteKeypad(resp_clavier.keys)
    /\ resp_clavier.keys[1].img = SigOf(6)
    /\ resp_clavier.keys[10].img = SigOf(3)
    /\ mapping[6] = Label(1)
    /\ mapping[3] = Label(10)

\* C6: a fragment with fewer than 10 resolvable keys does not make the decoder
\* fail: a key without a table entry is skipped and leaves the mapping as it
\* was, the mapping holds exactly the resolved digits (each with the label of
\* the last key resolving to it), and the run goes on to the encoding.
Resolvable(key) == key.img \in DOMAIN B64_SVG_LEN_MAP

RECURSIVE MappingOfResolvable(_, _)
MappingOfResolvable(keys, m) ==
    IF keys = <<>> THEN m
    ELSE MappingOfResolvable(Tail(keys),
            IF Resolvable(Head(keys))
            THEN Put(m, B64_SVG_LEN_MAP[Head(keys).img], Head(keys).label)
            ELSE m)

ResolvedDigits(keys) ==
    { B64_SVG_LEN_MAP[keys[i].img] :
        i \in { j \in 1..Len(keys) : Resolvable(keys[j]) } }

C6_PartialKeypadDecodes ==
    ( /\ KeypadDecoded
      /\ Cardinality(ResolvedDigits(resp_clavier.keys)) < 10 ) =>
        /\ failure # "keypad"
        /\ mapping = MappingOfResolvable(resp_clavier.keys, <<>>)

\* C7: with a non-empty account given by the caller, the budget page is not
\* fetched and the export asks for that account; the budget page is fetched
\* only when the caller gave none.
C7_CallerAccountFirst ==
    (account # "") =>
        /\ ~Issued("budget")
        /\ \A i \in 1..Len(requests) :
              requests[i].ep = "export" => requests[i].account = account

\* C8: the export GET never carries an empty account identifier; when neither
\* the caller nor the budget page gives one, the run returns with "no account"
\* and issues no export GET.
C8_NoExportWithoutAccount ==
    /\ \A i \in 1..Len(requests) :
          requests[i].ep = "export" => requests[i].account \notin {"", None}
    /\ (params_account = "") =>
          /\ pc = "done"
          /\ outcome = "returned"
          /\ failure = "account"
          /\ ~Issued("export")
          /\ NothingWritten

C8_Witness ==
    /\ Issued("budget")
    /\ account = ""
    /\ params_account = ""
    /\ failure = "account"

\* C9: the export response is rejected exactly when its status is not 2xx, or
\* it is 2xx with a content type other than text/csv and a body beginning
\* with '<'; every other response is accepted and parsed.
ExportAnswered == csv_resp.status \notin {-1, NetErr}

ExportWasRejected == pc = "done" /\ failure = "export"

Is2xx(status) == status >= 200 /\ status <= 299

C9_RejectsNon2xxOrMarkup ==
    ExportAnswered =>
        ( ExportWasRejected <=>
            \/ ~Is2xx(csv_resp.status)
            \/ /\ Is2xx(csv_resp.status)
               /\ ~ContainsTextCsv(csv_resp.ctype)
               /\ StartsWith(csv_resp.body, "<") )

\* C9, amended: the export response is rejected exactly when its status is
\* not 200, or it is 200 with a content type that does not contain text/csv
\* and a body that, leading whitespace apart, begins with '<'; every other
\* response is accepted and parsed.
C9_RejectsNon200OrMarkup ==
    ExportAnswered =>
        ( ExportWasRejected <=>
            \/ csv_resp.status # 200
            \/ /\ csv_resp.status = 200
               /\ csv_resp.ctype \notin {"text/csv", "text/csv; charset=UTF-8"}
               /\ LStrip(csv_resp.body) # <<>>
               /\ Head(LStrip(csv_resp.body)) = "<" )

C9_Witness ==
    /\ csv_resp.status = 200
    /\ csv_resp.ctype = "text/html"
    /\ csv_resp.body = <<"a", ";", "b">>
    /\ pc = "write"

\* C10: no partial success: in a run that is not a dry run the output file is
\* written only after a login that was accepted and an export response that
\* passed both checks, and a run that ended early, a rejected export after a
\* successful login included, has written neither file.
C10_NoPartialSuccess ==
    /\ (~dry_run /\ output_file # <<>>) =>
          /\ post_status \in {200, 302}
          /\ Issued("export")
          /\ csv_resp.status = 200
          /\ \/ csv_resp.ctype \in {"text/csv", "text/csv; charset=UTF-8"}
             \/ ~StartsWith(LStrip(csv_resp.body), "<")
          /\ output_file = <<requests[Len(requests)].account>>
    /\ (outcome \in {"returned", "raised"}) => NothingWritten

C10_Witness ==
    /\ post_status = 200
    /\ csv_resp.status = 200
    /\ failure = "export"
    /\ outcome = "returned"
    /\ NothingWritten


\* C11: input validation is fatal before any network call: with a client
\* number that is not all digits, or a PIN that is not exactly 8 digits, the
\* run ends without any HTTP request, output file or last-run timestamp.
MalformedInputs ==
    \/ ~IsDigit(client_number)
    \/ ~IsDigit(numeric_password)
    \/ Len(numeric_password) # 8

C11_MalformedInputsStopBeforeNetwork ==
    MalformedInputs =>
        /\ requests = <<>>
        /\ NothingWritten
        /\ pc \in {"validate", "done"}
        /\ pc = "done" => outcome = "returned" /\ failure = "input"

C11_Witness ==
    /\ pc = "done"
    /\ failure = "input"
    /\ IsDigit(client_number)
    /\ IsDigit(numeric_password)
    /\ Len(numeric_password) = 7


\* C14: the requests of a run go out in the order login GET, login GET,
\* keypad GET, login POST, budget GET, export GET: each one only after all
\* those before it, the login page at most twice and the others at most once.
RequestOrder == <<"login", "login", "clavier", "post", "budget", "export">>

C15_SecondLoginAfterCookie ==
    /\ \A i \in 2..Len(requests) : requests[i].mit # None
    /\ (failure = "cookie") =>
          /\ pc = "done"
          /\ outcome = "raised"
          /\ Len(requests) = 1
          /\ session_mit = None
          /\ NothingWritten

C15_Witness ==
    /\ Len(requests) = 2
    /\ requests[2].ep = "login"
    /\ requests[1].mit = None
    /\ requests[2].mit = "mit1"

\* C16: a keypad fragment without challenge does not end the run: once the
\* password is encoded, the POST is issued (without challenge), and the run
\* goes on to the budget page when the answer is 200 or 302.
LastRequestIs(ep) == requests # <<>> /\ requests[Len(requests)].ep = ep

PastEncoding ==
    \/ pc \in {"budget", "export", "parse", "write", "save"}
    \/ /\ pc = "done"
       /\ Issued("clavier")
       /\ failure \notin {"keypad", "encoding"}
       /\ ~(failure = "http" /\ LastRequestIs("clavier"))

C16_MissingChallengeStillSubmits ==
    (~dry_run /\ resp_clavier.challenge = NoElem /\ PastEncoding) =>
        /\ Issued("post")
        /\ \A i \in 1..Len(requests) :
              requests[i].ep = "post" => requests[i].challenge = None
        /\ (post_status \in {200, 302}) =>
              /\ failure # "auth"
              /\ (Issued("budget") \/ pc = "budget")
        /\ (post_status \notin {200, 302, NetErr}) => failure = "auth"

C16_Witness ==
    /\ resp_clavier.challenge = NoElem
    /\ resp_clavier.keys # <<>>
    /\ LastRequestIs("post")
    /\ post_status = 200
    /\ pc = "budget"

C19_TimestampOnlyAfterOutput ==
    /\ last_run_written =>
          /\ output_file # <<>>
          /\ pc = "done"
          /\ outcome = "completed"
    /\ (outcome \in {"returned", "raised"}) => ~last_run_written

C19_Witness ==
    /\ last_run_written
    /\ ~dry_run
    /\ Issued("export")
    /\ output_file # <<>>

\* C20: a dry run with valid inputs issues no request at all and still writes
\* an output file and the last-run timestamp.
C20_DryRunWritesWithoutRequests ==
    ( /\ dry_run
      /\ IsDigit(client_number)
      /\ IsDigit(numeric_password)
      /\ Len(numeric_password) = 8 ) =>
        /\ requests = <<>>
        /\ pc \in {"validate", "write", "save", "done"}
        /\ (pc = "done") =>
              /\ outcome = "completed"
              /\ output_file = <<"dry_run_", account>>
              /\ last_run_written

C20_Witness ==
    /\ dry_run
    /\ pc = "done"
    /\ requests = <<>>
    /\ output_file # <<>>
    /\ last_run_written


\* C18: after a decode, every entry digit -> label of the mapping is the
\* label of a key whose own image has a length the table maps to that digit;
\* a key without image contributes no entry and overwrites none.
LabelledByOwnImage(keys, m) ==
    \A d \in DOMAIN m :
        \E i \in 1..Len(keys) :
            /\ keys[i].label = m[d]
            /\ Resolvable(keys[i])
            /\ B64_SVG_LEN_MAP[keys[i].img] = d

C18_LabelsComeFromOwnImage ==
    (KeypadDecoded /\ failure # "keypad") =>
        LabelledByOwnImage(resp_clavier.keys, mapping)

\* ------------------------------------------------------ the __main__ block
MaxTime == 64

UnitsPerDay == 2

ThrottleDays == 30

\* datetime.fromisoformat(arg): TypeError unless arg is a str, ValueError when
\* the str is no ISO-8601 date, otherwise the instant it denotes.
fromisoformat(arg) ==
    IF arg.type # "str" THEN [raised |-> "TypeError", value |-> 0]
    ELSE IF arg.value = Invalid THEN [raised |-> "ValueError", value |-> 0]
    ELSE [raised |-> "none", value |-> arg.value]

\* (datetime.today() - prev_date).days: whole days, rounded down.
DiffDays(now, prev_date) == (now - prev_date) \div UnitsPerDay

InitDriver ==
    /\ pc = "driver"
    /\ outcome = "running"
    /\ failure = "none"
    /\ dry_run = FALSE
    /\ client_number = <<>>
    /\ numeric_password = <<>>
    /\ account = ""
    /\ requests = <<>>
    /\ session_mit = None
    /\ token = None
    /\ resp_clavier = NoClavier
    /\ mapping = <<>>
    /\ encoded_password = <<>>
    /\ matrix_random_challenge = None
    /\ post_status = -1
    /\ params_account = None
    /\ csv_resp = NoResponse
    /\ output_file = <<>>
    /\ last_run_written = FALSE
    /\ login_page = <<>>
    /\ \E argc \in {ExpectedArgc - 1, ExpectedArgc}, now \in 0..MaxTime,
          stored \in {Absent, Invalid} \cup 0..MaxTime :
            driver = [pc |-> "start", argc |-> argc, now |-> now,
                      stored |-> stored, read |-> FALSE, exit |-> "none"]

\* Lines 317-353, from the banner to the call of main(): the position the
\* block is left at ("exited", or "main" when main() is called), how it
\* exited, and whether SAVE_FILE was read.
DriverRun ==
    /\ pc = "driver"
    /\ driver.pc = "start"
    /\ driver' =
        IF fromisoformat([type |-> "datetime", value |-> driver.now]).raised
              # "none"
        THEN [driver EXCEPT !.pc = "exited", !.exit = "TypeError"]
        ELSE IF driver.argc # ExpectedArgc
        THEN [driver EXCEPT !.pc = "exited", !.exit = "usage"]
        ELSE IF driver.stored = Absent
        THEN [driver EXCEPT !.pc = "main"]
        ELSE LET prev == fromisoformat([type |-> "str",
                                        value |-> driver.stored])
             IN  IF prev.raised = "none"
                    /\ DiffDays(driver.now, prev.value) < ThrottleDays
                 THEN [driver EXCEPT !.pc = "exited", !.exit = "throttled",
                                     !.read = TRUE]
                 ELSE [driver EXCEPT !.pc = "main", !.read = TRUE]
    /\ UNCHANGED << pc, outcome, failure, dry_run, client_number,
                    numeric_password, account, requests, session_mit, token,
                    resp_clavier, mapping, encoded_password,
                    matrix_random_challenge, post_status, params_account,
                    csv_resp, output_file, last_run_written, login_page >>

\* The script is started again, no earlier than the invocation before it.
DriverInvokedAgain ==
    /\ pc = "driver"
    /\ driver.pc = "exited"
    /\ \E now \in driver.now..MaxTime :
          driver' = [driver EXCEPT !.pc = "start", !.now = now,
                                   !.read = FALSE, !.exit = "none"]
    /\ UNCHANGED << pc, outcome, failure, dry_run, client_number,
                    numeric_password, account, requests, session_mit, token,
                    resp_clavier, mapping, encoded_password,
                    matrix_random_challenge, post_status, params_account,
                    csv_resp, output_file, last_run_written, login_page >>

NextDriver == DriverRun \/ DriverInvokedAgain

SpecDriver == InitDriver /\ [][NextDriver]_vars

\* -------------------------------------------------------------------- C13
\* The store holds a date less than 30 days before the invocation.
RecentlyRun ==
    /\ driver.stored \notin {Absent, Invalid}
    /\ DiffDays(driver.now, driver.stored) < ThrottleDays

\* C13: an invocation with a well-formed command line that starts less than
\* 30 days after the stored last-run date is stopped by the throttle: the
\* driver has read the store and left through the throttle's exit, before the
\* run, with no request made, no output file and the stored date untouched.
C13_DriverThrottlesOnStoredDate ==
    (driver.pc \in {"exited", "main"} /\ driver.argc = ExpectedArgc
        /\ RecentlyRun) =>
        /\ driver.pc = "exited"
        /\ driver.read
        /\ driver.exit = "throttled"
        /\ requests = <<>>
        /\ NothingWritten

\* -------------------------------------------------------------------- C12
\* The tokens a page carries under a pattern: the non-empty values of the
\* inputs whose name the pattern accepts.
TokensUnder(page, accepted) ==
    {page[i].value : i \in {j \in 1..Len(page) :
        page[j].name \in accepted /\ page[j].value \notin {NoElem, ""}}}

PrimaryTokens(page) == TokensUnder(page, PrimaryNames)

FallbackTokens(page) == TokensUnder(page, FallbackNames)

\* The call touched nothing but its result.
TokenCallIsPure ==
    /\ requests = <<>>
    /\ session_mit = None
    /\ NothingWritten
    /\ failure = "none"

\* C12 as stated: the extractor returns a primary-pattern token whenever the
\* page carries one, otherwise a fallback token (_token) whenever the page
\* carries one, otherwise "not found"; it requests nothing and writes nothing.
C12_PrimaryThenFallbackThenNone ==
    pc = "token_done" =>
        /\ PrimaryTokens(login_page) # {} => token \in PrimaryTokens(login_page)
        /\ (PrimaryTokens(login_page) = {} /\ FallbackTokens(login_page) # {})
               => token \in FallbackTokens(login_page)
        /\ (PrimaryTokens(login_page) = {} /\ FallbackTokens(login_page) = {})
               => token = None
        /\ TokenCallIsPure

\* The inputs of a page whose name a pattern accepts, in document order.
InputsUnder(page, accepted) ==
    SelectSeq(page, LAMBDA inp : inp.name \in accepted)

\* The first input under a pattern carries a non-empty value.
FirstCarriesToken(matching) ==
    matching # <<>> /\ Head(matching).value \notin {NoElem, ""}

\* C12 amended: only the first input under each pattern counts.  The
\* extractor returns the value of the first input whose name matches
\* form[_token] when that input carries a non-empty value, otherwise the value
\* of the first input named _token when that input carries one, otherwise
\* "not found"; it requests nothing and writes nothing.
C12_FirstPrimaryThenFirstFallback ==
    pc = "token_done" =>
        LET prim == InputsUnder(login_page, PrimaryNames)
            fall == InputsUnder(login_page, FallbackNames)
        IN  /\ FirstCarriesToken(prim) => token = Head(prim).value
            /\ (~FirstCarriesToken(prim) /\ FirstCarriesToken(fall))
                   => token = Head(fall).value
            /\ (~FirstCarriesToken(prim) /\ ~FirstCarriesToken(fall))
                   => token = None
            /\ TokenCallIsPure

\* A page whose only token sits in an input named _token, behind an empty
\* form[_token] input: the fallback value is returned.
C12_Witness ==
    /\ pc = "token_done"
    /\ login_page = << [name |-> "form[_token]", value |-> ""],
                       [name |-> "_token", value |-> "T2"] >>
    /\ token = "T2"

====
